---- MODULE Spec2Model ----
(***************************************************************************)
(* celery.worker.consumer: the Consumer's supervisory loop (start /        *)
(* restart / shutdown), its message handlers (on_decode_error,             *)
(* handle_unknown_*, on_task, apply_eta_task), the connection retry of     *)
(* _open_connection, the dynamic queue operations and the two-phase        *)
(* Namespace.shutdown.                                                     *)
(*                                                                         *)
(* Collaborators that live outside celery/worker/consumer/__init__.py      *)
(* (the bootsteps Namespace base class, the event loop, the task registry) *)
(* appear only through the calls the Consumer makes on them.               *)
(***************************************************************************)
EXTENDS Integers, Sequences, FiniteSets, TLC

\* ------------------------------------------------------------------ bounds
MaxDeliveries == 3      \* deliveries the broker hands to the Consumer
MaxRecoveryDeliveries == 2   \* deliveries handled in the runs with recoveries
MaxFaults == 2          \* exceptions the environment raises in one run
MaxComponents == 3      \* length of parent.components
MaxEta == 2             \* eta values a task message may carry: 1..MaxEta
BROKER_CONNECTION_MAX_RETRIES == 1   \* app.conf.BROKER_CONNECTION_MAX_RETRIES

\* ------------------------------------------------------- program constants
ETA_PRIORITY == 6       \* priority=6 in timer.apply_at
MaxTimestamp == 1       \* largest eta to_timestamp converts without overflow
initial_prefetch_count == 2   \* concurrency * prefetch_multiplier

\* bootsteps lifecycle states
INIT == "init"
RUN == "run"
CLOSE == "close"

\* exception kinds
connection_errors == {"ConnectionError"}
channel_errors == {"ChannelError"}
OtherErrors == {"OtherError"}
ExcKinds == connection_errors \cup channel_errors \cup OtherErrors
SystemExit == "SystemExit"      \* what maybe_shutdown raises
NoExc == "none"

Deliveries == 1..MaxDeliveries
NoEta == 0
Etas == 0..MaxEta
TaskNames == {"add"}
QueueNames == {"celery", "extra", "other", "priority"}
NoTask == [revoked |-> FALSE, eta |-> NoEta]

VARIABLES
    pc,             \* where Consumer.start() is
    state,          \* namespace.state
    should_stop,    \* the flag maybe_shutdown() reads
    exc,            \* the exception travelling to the except clause of start()
    escaped,        \* the exception that left start(), NoExc when none
    retries,        \* retries made by ensure_connection in this _open_connection
    faults,         \* exceptions raised so far (bounded by MaxFaults)
    start_calls,    \* calls of ns.start(self)
    restart_calls,  \* calls of self.restart()
    init_calls,     \* calls of self.init_callback(self)
    tasks,          \* app.tasks: task name -> registered (1) or not (0)
    strategies,     \* self.strategies: task name -> strategy of that task, 0 absent
    queues,         \* app.amqp.queues: names that have a Queue
    consume_from,   \* app.amqp.queues: names selected for consuming
    consuming,      \* queues self.task_consumer consumes from
    consume_calls,  \* calls of task_consumer.consume() made by add_task_queue
    next_delivery,  \* the next delivery the loop will hand to a handler
    handler,        \* delivery -> the handler that took it ("" not yet)
    task,           \* delivery -> the task it decoded to (on_task only)
    outcome,        \* delivery -> what its handler did, in order
    fired,          \* delivery -> what apply_eta_task did for it, in order
    ready_queue,    \* self.ready_queue, oldest first
    timer,          \* self.timer: the scheduled entries
    reserved,       \* tasks marked by task_reserved
    qos_inc,        \* calls of qos.increment_eventually()
    qos_dec,        \* calls of qos.decrement_eventually()
    components,     \* parent.components
    shutdown_calls, \* calls of Consumer.shutdown()
    shutdown_log,   \* component.shutdown(parent) calls, in order
    recovering,     \* a broker fault was caught and the loop has not resumed yet
    recoveries,     \* completed failure-and-recovery cycles
    rq_at_failure,  \* ready_queue when the latest caught fault was raised
    obs_snap,       \* the observable state when a recovery completed
    fresh,          \* on_start ran in the recovery under way and nothing but the
                    \* recovery happened since
    snap_at         \* the recovery obs_snap was taken at; 0: there is none, for
                    \* something other than faults and recoveries happened since

supvars == <<pc, state, should_stop, exc, escaped, retries, faults, start_calls,
             restart_calls, init_calls>>
appvars == <<tasks, strategies, queues, consume_from, consuming, consume_calls>>
msgvars == <<next_delivery, handler, task, outcome, fired, ready_queue, timer,
             reserved, qos_inc, qos_dec>>
sdvars == <<components, shutdown_calls, shutdown_log>>
histvars == <<recovering, recoveries, rq_at_failure, obs_snap, fresh, snap_at>>
vars == <<supvars, appvars, msgvars, sdvars, histvars>>

\* ----------------------------------------------------------------- helpers
Range(s) == {s[i] : i \in 1..Len(s)}
Count(s, op) == Cardinality({i \in 1..Len(s) : s[i] = op})
Has(s, op) == op \in Range(s)
IsPrefix(s, t) == Len(s) <= Len(t) /\ SubSeq(t, 1, Len(s)) = s
Repeat(x, n) == [i \in 1..n |-> x]

\* what a handler returns: the calls it made, in order, and what it raised
Done(eff) == [eff |-> eff, raises |-> NoExc]

\* --------------------------------------------------- Namespace.shutdown
\* line 129: the component is put aside for the second pass
delays_never(component, force) == FALSE
delays(component, force) == ~force /\ component.delay_shutdown

\* _shutdown_step: the components whose shutdown it calls, in order, and the
\* ones it returns as delayed
RECURSIVE _shutdown_step(_, _)
_shutdown_step(comps, force) ==
    IF comps = <<>> THEN [called |-> <<>>, delayed |-> <<>>]
    ELSE LET component == Head(comps)
             rest == _shutdown_step(Tail(comps), force)
         IN  IF ~component.truthy THEN rest
             ELSE IF delays(component, force)
                  THEN [called |-> rest.called,
                        delayed |-> <<component>> \o rest.delayed]
                  ELSE [called |-> <<component>> \o rest.called,
                        delayed |-> rest.delayed]

\* Namespace.shutdown: every component.shutdown(parent) call, in order
ns_shutdown(comps) ==
    LET first == _shutdown_step(comps, FALSE)
        second == _shutdown_step(first.delayed, TRUE)
    IN  first.called \o second.called

\* ------------------------------------------------------ message handlers
\* timer2.to_timestamp: OverflowError past the platform's limit
to_timestamp(eta) == [overflow |-> eta > MaxTimestamp, value |-> eta]

\* the undecodable message handed back to the broker instead
on_decode_error_rejects == Done(<<"reject">>)

on_decode_error == Done(<<"ack">>)

\* Message.reject_log_error(logger, errors): res is what message.reject() did
reject_log_error(errors, res) ==
    [eff |-> <<"reject">>,
     raises |-> IF res = "ok" \/ res \in errors THEN NoExc ELSE res]

handle_unknown_message(res) == reject_log_error(connection_errors, res)
handle_unknown_task(res) == reject_log_error(connection_errors, res)
handle_invalid_task(res) == reject_log_error(connection_errors, res)

\* the eta branch written without its else: the task is queued as well
on_task_no_else(t, enabled) ==
    IF t.revoked THEN Done(<<>>)
    ELSE Done((IF enabled THEN <<"event">> ELSE <<>>) \o
              (IF t.eta # NoEta
               THEN IF to_timestamp(t.eta).overflow
                    THEN <<"ack">>
                    ELSE <<"qos_inc", "timer">>
               ELSE <<>>) \o <<"reserved", "put">>)

\* revoked() looked at only on the branch of the tasks without eta
on_task_revoked_checked_late(t, enabled) ==
    Done((IF enabled THEN <<"event">> ELSE <<>>) \o
         (IF t.eta # NoEta
          THEN IF to_timestamp(t.eta).overflow
               THEN <<"ack">>
               ELSE <<"qos_inc", "timer">>
          ELSE IF t.revoked THEN <<>> ELSE <<"reserved", "put">>))

\* the OverflowError handler written without task.acknowledge()
on_task_overflow_unacked(t, enabled) ==
    IF t.revoked THEN Done(<<>>)
    ELSE Done((IF enabled THEN <<"event">> ELSE <<>>) \o
              (IF t.eta # NoEta
               THEN IF to_timestamp(t.eta).overflow
                    THEN <<>>
                    ELSE <<"qos_inc", "timer">>
               ELSE <<"reserved", "put">>))

on_task(t, enabled) ==
    IF t.revoked THEN Done(<<>>)
    ELSE Done((IF enabled THEN <<"event">> ELSE <<>>) \o
              (IF t.eta # NoEta
               THEN IF to_timestamp(t.eta).overflow
                    THEN <<"ack">>
                    ELSE <<"qos_inc", "timer">>
               ELSE <<"reserved", "put">>))

\* the timer callback written without its decrement
apply_eta_task_no_decrement == <<"reserved", "put">>

\* the task queued before it is marked reserved
apply_eta_task_put_first == <<"put", "reserved", "qos_dec">>

apply_eta_task == <<"reserved", "put", "qos_dec">>

\* ------------------------------------------------------------ on_start
\* a rebuild that only fills in the names the table does not hold yet and
\* starts from an empty table
update_strategies_missing_only(S, registry) ==
    [name \in TaskNames |->
        IF registry[name] # 0 /\ S[name] = 0 THEN registry[name] ELSE 0]

\* S[name] = task.start_strategy(app, self) for every registered task
update_strategies(S, registry) ==
    [name \in TaskNames |->
        IF registry[name] # 0 THEN registry[name] ELSE S[name]]

\* on_close: ready_queue.clear(); timer.clear()
on_close == [ready_queue |-> <<>>, timer |-> {}]

\* the except clause of start(): the exceptions it names
catches_everything(e) == TRUE
catches(e) == e \in connection_errors \cup channel_errors

\* Consumer.restart: whether it runs the on_close hook before asking the
\* namespace to restart
restart_clears_always == TRUE
restart_clears == FALSE

qos_value == initial_prefetch_count + qos_inc - qos_dec

\* the state Restart idempotence speaks of
Obs == [strategies |-> strategies, queues |-> queues,
        consume_from |-> consume_from, qos |-> qos_value,
        ready_queue |-> ready_queue]

\* something other than a fault or a recovery happens: the snapshot is dropped
NoSnap == [strategies |-> [name \in TaskNames |-> 0], queues |-> {},
           consume_from |-> {}, qos |-> 0, ready_queue |-> <<>>]

Disturb == snap_at' = 0 /\ obs_snap' = NoSnap /\ fresh' = FALSE

\* the queue remembered for the fault under recovery; dropped otherwise
Forget == rq_at_failure' = IF recovering THEN rq_at_failure ELSE <<>>

\* ------------------------------------------------------------------ Init
Component(i, kind) ==
    [id |-> i, truthy |-> kind # "None", delay_shutdown |-> kind = "delayed"]

ComponentLists ==
    UNION {[1..n -> {"None", "plain", "delayed"}] : n \in 0..MaxComponents}

InitWith(kinds) ==
    /\ pc = "idle"
    /\ state = INIT
    /\ should_stop = FALSE
    /\ exc = NoExc
    /\ escaped = NoExc
    /\ retries = 0
    /\ faults = 0
    /\ start_calls = 0
    /\ restart_calls = 0
    /\ init_calls = 0
    /\ tasks = [name \in TaskNames |-> 1]
    /\ strategies = [name \in TaskNames |-> 0]
    /\ queues = {"celery"}
    /\ consume_from = {"celery"}
    /\ consuming = {"celery"}
    /\ consume_calls = 0
    /\ next_delivery = 1
    /\ handler = [d \in Deliveries |-> ""]
    /\ task = [d \in Deliveries |-> NoTask]
    /\ outcome = [d \in Deliveries |-> <<>>]
    /\ fired = [d \in Deliveries |-> <<>>]
    /\ ready_queue = <<>>
    /\ timer = {}
    /\ reserved = {}
    /\ qos_inc = 0
    /\ qos_dec = 0
    /\ components = [i \in DOMAIN kinds |-> Component(i, kinds[i])]
    /\ shutdown_calls = 0
    /\ shutdown_log = <<>>
    /\ recovering = FALSE
    /\ recoveries = 0
    /\ rq_at_failure = <<>>
    /\ obs_snap = NoSnap
    /\ fresh = FALSE
    /\ snap_at = 0

\* a Consumer whose namespace built three steps, one of them delayed
BootSteps == <<"plain", "delayed", "plain">>

Init == InitWith(BootSteps)

InitAnyComponents == \E kinds \in ComponentLists : InitWith(kinds)

\* ------------------------------------------------- Consumer.start()
\* an exception raised inside the try block of start()
Raise(e) ==
    /\ faults < MaxFaults
    /\ pc' = "except"
    /\ exc' = e
    /\ faults' = faults + 1

StartCalled ==
    /\ pc = "idle"
    /\ pc' = "while"
    /\ UNCHANGED <<state, should_stop, exc, escaped, retries, faults, start_calls,
                   restart_calls, init_calls>>
    /\ UNCHANGED <<appvars, msgvars, sdvars, histvars>>

\* while ns.state != CLOSE
WhileCheck ==
    /\ pc = "while"
    /\ pc' = IF state # CLOSE THEN "maybe_shutdown" ELSE "returned"
    /\ UNCHANGED <<state, should_stop, exc, escaped, retries, faults, start_calls,
                   restart_calls, init_calls>>
    /\ UNCHANGED <<appvars, msgvars, sdvars, histvars>>

\* an iteration that goes on to ns.start without looking at the flag
MaybeShutdown_ignores_flag ==
    /\ pc = "maybe_shutdown"
    /\ pc' = "ns_start"
    /\ UNCHANGED <<state, should_stop, exc, escaped, retries, faults, start_calls,
                   restart_calls, init_calls>>
    /\ UNCHANGED <<appvars, msgvars, sdvars, histvars>>

\* maybe_shutdown() at the top of the iteration, outside the try block
MaybeShutdown ==
    /\ pc = "maybe_shutdown"
    /\ IF should_stop
       THEN pc' = "raised" /\ escaped' = SystemExit
       ELSE pc' = "ns_start" /\ UNCHANGED escaped
    /\ UNCHANGED <<state, should_stop, exc, retries, faults, start_calls,
                   restart_calls, init_calls>>
    /\ UNCHANGED <<appvars, msgvars, sdvars, histvars>>

\* ns.start(self): the namespace runs the on_start hook, then starts the steps
NsStart ==
    /\ pc = "ns_start"
    /\ state' = RUN
    /\ start_calls' = start_calls + 1
    /\ strategies' = update_strategies(strategies, tasks)
    /\ init_calls' = init_calls + 1
    /\ retries' = 0
    /\ pc' = "connect"
    /\ UNCHANGED <<should_stop, exc, escaped, faults, restart_calls>>
    /\ fresh' = recovering
    /\ UNCHANGED <<recovering, recoveries, rq_at_failure, obs_snap, snap_at>>
    /\ UNCHANGED <<tasks, queues, consume_from, consuming, consume_calls>>
    /\ UNCHANGED <<msgvars, sdvars>>

\* _open_connection, one attempt of connect() / ensure_connection; retry is
\* app.conf.BROKER_CONNECTION_RETRY as read by this call
OpenConnection(ok, conf_retry) ==
    /\ pc = "connect"
    /\ IF ok
       THEN /\ pc' = "steps"
            /\ UNCHANGED <<exc, faults, retries>>
       ELSE IF ~conf_retry \/ retries >= BROKER_CONNECTION_MAX_RETRIES
            THEN /\ \E e \in connection_errors : Raise(e)
                 /\ UNCHANGED retries
            ELSE IF should_stop        \* callback=maybe_shutdown
                 THEN Raise(SystemExit) /\ UNCHANGED retries
                 ELSE /\ retries' = retries + 1
                      /\ UNCHANGED <<pc, exc, faults>>
    /\ UNCHANGED <<state, should_stop, escaped, start_calls, restart_calls,
                   init_calls>>
    /\ UNCHANGED <<appvars, msgvars, sdvars, histvars>>

\* the loop is entered: a recovery that was under way is complete
Resume ==
    /\ pc' = "loop"
    /\ recovering' = FALSE
    /\ recoveries' = IF recovering THEN recoveries + 1 ELSE recoveries
    /\ IF recovering /\ fresh /\ snap_at = 0
       THEN obs_snap' = Obs /\ snap_at' = recoveries + 1
       ELSE UNCHANGED <<obs_snap, snap_at>>
    /\ fresh' = FALSE
    /\ UNCHANGED <<rq_at_failure, exc, faults>>

\* the remaining steps start; r is what their start-up did
StepsStart(r) ==
    /\ pc = "steps"
    /\ IF r = "ok"
       THEN Resume
       ELSE Raise(r) /\ UNCHANGED histvars
    /\ UNCHANGED <<state, should_stop, escaped, retries, start_calls, restart_calls,
                   init_calls>>
    /\ UNCHANGED <<appvars, msgvars, sdvars>>

\* loop(*loop_args) raises e
LoopRaises(e) ==
    /\ pc = "loop"
    /\ Raise(e)
    /\ rq_at_failure' = ready_queue
    /\ UNCHANGED <<recovering, recoveries, obs_snap, fresh, snap_at>>
    /\ UNCHANGED <<state, should_stop, escaped, retries, start_calls, restart_calls,
                   init_calls>>
    /\ UNCHANGED <<appvars, msgvars, sdvars>>

\* loop(*loop_args) returns: the namespace was closed
LoopReturns ==
    /\ pc = "loop"
    /\ state = CLOSE
    /\ pc' = "while"
    /\ UNCHANGED <<state, should_stop, exc, escaped, retries, faults, start_calls,
                   restart_calls, init_calls>>
    /\ UNCHANGED <<appvars, msgvars, sdvars, histvars>>

\* except self.connection_errors + self.channel_errors: self.restart()
\* r is what restart() did; an exception it raises leaves start()
ExceptClause(r) ==
    /\ pc = "except"
    /\ exc' = NoExc
    /\ IF catches(exc)
       THEN /\ restart_calls' = restart_calls + 1
            /\ IF restart_clears
               THEN ready_queue' = on_close.ready_queue /\ timer' = on_close.timer
               ELSE UNCHANGED <<ready_queue, timer>>
            /\ IF r = "ok"
               THEN /\ pc' = "while"
                    /\ recovering' = TRUE
                    /\ UNCHANGED <<escaped, faults>>
               ELSE /\ faults < MaxFaults
                    /\ faults' = faults + 1
                    /\ pc' = "raised"
                    /\ escaped' = r
                    /\ UNCHANGED recovering
       ELSE /\ r = "ok"
            /\ pc' = "raised"
            /\ escaped' = exc
            /\ UNCHANGED <<restart_calls, faults, ready_queue, timer, recovering>>
    /\ UNCHANGED <<state, should_stop, retries, start_calls, init_calls>>
    /\ UNCHANGED <<next_delivery, handler, task, outcome, fired, reserved,
                   qos_inc, qos_dec>>
    /\ UNCHANGED <<recoveries, rq_at_failure, obs_snap, fresh, snap_at>>
    /\ UNCHANGED <<appvars, sdvars>>

\* ------------------------------------------------ deliveries in the loop
\* a put that places the task at the head of the ready queue
Effects_put_first(d, eff, t) ==
    /\ ready_queue' = Repeat(d, Count(eff, "put")) \o ready_queue
    /\ timer' = IF Has(eff, "timer")
                THEN timer \cup {[task |-> d, eta |-> to_timestamp(t.eta).value,
                                  priority |-> ETA_PRIORITY]}
                ELSE timer
    /\ reserved' = IF Has(eff, "reserved") THEN reserved \cup {d} ELSE reserved
    /\ qos_inc' = qos_inc + Count(eff, "qos_inc")
    /\ qos_dec' = qos_dec + Count(eff, "qos_dec")

\* the calls in eff take effect on the ready queue, the timer, the reserved
\* set and the QoS, for the task of delivery d
Effects(d, eff, t) ==
    /\ ready_queue' = ready_queue \o Repeat(d, Count(eff, "put"))
    /\ timer' = IF Has(eff, "timer")
                THEN timer \cup {[task |-> d, eta |-> to_timestamp(t.eta).value,
                                  priority |-> ETA_PRIORITY]}
                ELSE timer
    /\ reserved' = IF Has(eff, "reserved") THEN reserved \cup {d} ELSE reserved
    /\ qos_inc' = qos_inc + Count(eff, "qos_inc")
    /\ qos_dec' = qos_dec + Count(eff, "qos_dec")

\* the loop hands delivery d to handler h, which does r
Handle(d, h, t, r) ==
    /\ pc = "loop"
    /\ d = next_delivery
    /\ d <= MaxDeliveries
    /\ next_delivery' = d + 1
    /\ handler' = [handler EXCEPT ![d] = h]
    /\ task' = [task EXCEPT ![d] = t]
    /\ outcome' = [outcome EXCEPT ![d] = r.eff]
    /\ Effects(d, r.eff, t)
    /\ IF r.raises = NoExc
       THEN UNCHANGED <<pc, exc, faults>> /\ Forget
       ELSE Raise(r.raises) /\ rq_at_failure' = ready_queue'
    /\ Disturb
    /\ UNCHANGED <<recovering, recoveries>>
    /\ UNCHANGED <<state, should_stop, escaped, retries, start_calls, restart_calls,
                   init_calls>>
    /\ UNCHANGED <<fired, appvars, sdvars>>

OnDecodeError ==
    Handle(next_delivery, "on_decode_error", NoTask, on_decode_error)

HandleUnknownMessage(res) ==
    Handle(next_delivery, "handle_unknown_message", NoTask,
           handle_unknown_message(res))

HandleUnknownTask(res) ==
    Handle(next_delivery, "handle_unknown_task", NoTask, handle_unknown_task(res))

HandleInvalidTask(res) ==
    Handle(next_delivery, "handle_invalid_task", NoTask, handle_invalid_task(res))

\* enabled is self.event_dispatcher.enabled as read by this call
OnTask(t, enabled) ==
    Handle(next_delivery, "on_task", t, on_task(t, enabled))

\* the timer fires an entry: apply_eta_task(task)
ApplyEtaTask(entry) ==
    /\ entry \in timer
    /\ fired' = [fired EXCEPT ![entry.task] = apply_eta_task]
    /\ ready_queue' = ready_queue \o Repeat(entry.task, Count(apply_eta_task, "put"))
    /\ timer' = timer \ {entry}
    /\ reserved' = IF Has(apply_eta_task, "reserved")
                   THEN reserved \cup {entry.task} ELSE reserved
    /\ qos_inc' = qos_inc + Count(apply_eta_task, "qos_inc")
    /\ qos_dec' = qos_dec + Count(apply_eta_task, "qos_dec")
    /\ Disturb
    /\ Forget
    /\ UNCHANGED <<recovering, recoveries>>
    /\ UNCHANGED <<next_delivery, handler, task, outcome>>
    /\ UNCHANGED <<supvars, appvars, sdvars>>

\* ------------------------------------------------------ queue operations
\* app.amqp.queues and the subscriptions of self.task_consumer
AppQueues ==
    [queues |-> queues, consume_from |-> consume_from, consuming |-> consuming]

\* Queues.select_add: the queue is added to the queue set and selected
select_add(Q, queue) ==
    [Q EXCEPT !.queues = @ \cup {queue}, !.consume_from = @ \cup {queue}]

\* Queues.select_remove: the queue is deselected and stays in the queue set
select_remove(Q, queue) == [Q EXCEPT !.consume_from = @ \ {queue}]

\* add_queue and consume() called without asking consuming_from first
add_task_queue_always_consumes(Q, queue) ==
    LET S == IF queue \in Q.queues THEN Q ELSE select_add(Q, queue)
    IN  [queues |-> S.queues,
         consume_from |-> S.consume_from,
         consuming |-> S.consuming \cup {queue},
         calls |-> (IF queue \in Q.queues THEN <<>> ELSE <<"select_add">>) \o
                   <<"add_queue", "consume">>]

\* add_task_queue: the queue set and the subscriptions it leaves, and the
\* calls it made on them
add_task_queue(Q, queue) ==
    LET S == IF queue \in Q.queues THEN Q ELSE select_add(Q, queue)
    IN  [queues |-> S.queues,
         consume_from |-> S.consume_from,
         consuming |-> S.consuming \cup {queue},
         calls |-> (IF queue \in Q.queues THEN <<>> ELSE <<"select_add">>) \o
                   (IF queue \in Q.consuming THEN <<>>
                    ELSE <<"add_queue", "consume">>)]

\* cancel_task_queue: select_remove, cancel_by_queue
cancel_task_queue(Q, queue) ==
    [queues |-> select_remove(Q, queue).queues,
     consume_from |-> select_remove(Q, queue).consume_from,
     consuming |-> Q.consuming \ {queue},
     calls |-> <<"select_remove", "cancel_by_queue">>]

AddTaskQueue(queue) ==
    /\ pc = "loop"
    /\ queues' = add_task_queue(AppQueues, queue).queues
    /\ consume_from' = add_task_queue(AppQueues, queue).consume_from
    /\ consuming' = add_task_queue(AppQueues, queue).consuming
    /\ consume_calls' = IF Has(add_task_queue(AppQueues, queue).calls, "consume")
                        THEN 1 ELSE consume_calls
    /\ Disturb
    /\ Forget
    /\ UNCHANGED <<recovering, recoveries>>
    /\ UNCHANGED <<tasks, strategies>>
    /\ UNCHANGED <<supvars, msgvars, sdvars>>

CancelTaskQueue(queue) ==
    /\ pc = "loop"
    /\ consume_from' = cancel_task_queue(AppQueues, queue).consume_from
    /\ consuming' = cancel_task_queue(AppQueues, queue).consuming
    /\ Disturb
    /\ Forget
    /\ UNCHANGED <<recovering, recoveries>>
    /\ UNCHANGED <<tasks, strategies, queues, consume_calls>>
    /\ UNCHANGED <<supvars, msgvars, sdvars>>

\* ------------------------------------------------------------ environment
\* a task is registered with, or removed from, the app's task registry
SetRegistered(name, v) ==
    /\ tasks[name] # v
    /\ tasks' = [tasks EXCEPT ![name] = v]
    /\ Disturb
    /\ Forget
    /\ UNCHANGED <<recovering, recoveries>>
    /\ UNCHANGED <<strategies, queues, consume_from, consuming, consume_calls>>
    /\ UNCHANGED <<supvars, msgvars, sdvars>>

\* the worker asks for a shutdown: maybe_shutdown() will raise from now on
RequestShutdown ==
    /\ ~should_stop
    /\ pc \notin {"returned", "raised"}
    /\ should_stop' = TRUE
    /\ UNCHANGED <<pc, state, exc, escaped, retries, faults, start_calls,
                   restart_calls, init_calls>>
    /\ UNCHANGED <<appvars, msgvars, sdvars, histvars>>

\* the namespace is closed: it runs the on_close hook and its state is CLOSE
NsClose ==
    /\ pc \in {"idle", "while", "loop"}
    /\ state # CLOSE
    /\ state' = CLOSE
    /\ ready_queue' = on_close.ready_queue
    /\ timer' = on_close.timer
    /\ Disturb
    /\ Forget
    /\ UNCHANGED <<recovering, recoveries>>
    /\ UNCHANGED <<pc, should_stop, exc, escaped, retries, faults, start_calls,
                   restart_calls, init_calls>>
    /\ UNCHANGED <<next_delivery, handler, task, outcome, fired, reserved,
                   qos_inc, qos_dec>>
    /\ UNCHANGED <<appvars, sdvars>>

\* Consumer.shutdown(): the first n component.shutdown calls return, and the
\* one after them, if there is one, raises
Shutdown(n) ==
    /\ shutdown_calls = 0
    /\ n <= Len(ns_shutdown(components))
    /\ shutdown_calls' = shutdown_calls + 1
    /\ shutdown_log' = [i \in 1..n |-> ns_shutdown(components)[i].id]
    /\ UNCHANGED components
    /\ UNCHANGED <<supvars, appvars, msgvars, histvars>>

Tasks == [revoked : BOOLEAN, eta : Etas]
RejectResults == {"ok"} \cup ExcKinds

Supervisor ==
    \/ StartCalled
    \/ WhileCheck
    \/ MaybeShutdown
    \/ NsStart
    \/ \E ok \in BOOLEAN, conf_retry \in BOOLEAN : OpenConnection(ok, conf_retry)
    \/ \E r \in {"ok"} \cup ExcKinds : StepsStart(r)
    \/ \E e \in ExcKinds : LoopRaises(e)
    \/ LoopReturns
    \/ \E r \in {"ok"} \cup ExcKinds : ExceptClause(r)

Dispatch ==
    \/ OnDecodeError
    \/ \E res \in RejectResults : HandleUnknownMessage(res)
    \/ \E res \in RejectResults : HandleUnknownTask(res)
    \/ \E res \in RejectResults : HandleInvalidTask(res)
    \/ \E t \in Tasks, enabled \in BOOLEAN : OnTask(t, enabled)
    \/ \E entry \in timer : ApplyEtaTask(entry)

\* the supervisory loop with its environment: shutdown requests, the
\* namespace being closed, Consumer.shutdown()
Next ==
    \/ Supervisor
    \/ RequestShutdown
    \/ NsClose
    \/ \E n \in 0..MaxComponents : Shutdown(n)

Spec == Init /\ [][Next]_vars

\* the Consumer once its first ns.start(self) has returned and the loop runs
InitLoopWith(declared, selected) ==
    /\ pc = "loop"
    /\ state = RUN
    /\ should_stop = FALSE
    /\ exc = NoExc
    /\ escaped = NoExc
    /\ retries = 0
    /\ faults = 0
    /\ start_calls = 1
    /\ restart_calls = 0
    /\ init_calls = 1
    /\ tasks = [name \in TaskNames |-> 1]
    /\ strategies = update_strategies([name \in TaskNames |-> 0], tasks)
    /\ queues = declared
    /\ consume_from = selected
    /\ consuming = selected
    /\ consume_calls = 0
    /\ next_delivery = 1
    /\ handler = [d \in Deliveries |-> ""]
    /\ task = [d \in Deliveries |-> NoTask]
    /\ outcome = [d \in Deliveries |-> <<>>]
    /\ fired = [d \in Deliveries |-> <<>>]
    /\ ready_queue = <<>>
    /\ timer = {}
    /\ reserved = {}
    /\ qos_inc = 0
    /\ qos_dec = 0
    /\ components = [i \in DOMAIN BootSteps |-> Component(i, BootSteps[i])]
    /\ shutdown_calls = 0
    /\ shutdown_log = <<>>
    /\ recovering = FALSE
    /\ recoveries = 0
    /\ rq_at_failure = <<>>
    /\ obs_snap = NoSnap
    /\ fresh = FALSE
    /\ snap_at = 0

InitLoop == InitLoopWith({"celery"}, {"celery"})

\* the running loop dispatching deliveries and the timer firing, until a
\* handler raises
NextDispatch == Dispatch

SpecDispatch == InitLoop /\ [][NextDispatch]_vars

\* failures and recoveries while tasks arrive (for immediate execution or
\* with an eta that converts), the registry and the queue set change and the
\* namespace may be closed
NextRecovery ==
    \/ Supervisor
    \/ \E eta \in {NoEta, MaxTimestamp} :
          /\ next_delivery <= MaxRecoveryDeliveries
          /\ OnTask([revoked |-> FALSE, eta |-> eta], FALSE)
    \/ \E entry \in timer : ApplyEtaTask(entry)
    \/ AddTaskQueue("extra")
    \/ CancelTaskQueue("extra")
    \/ \E name \in TaskNames, v \in {0, 1} : SetRegistered(name, v)
    \/ NsClose

SpecRecovery == Init /\ [][NextRecovery]_vars

\* queues added and cancelled at run time, on a Consumer started with any
\* queues declared and any of them selected
InitQueues ==
    \E declared \in SUBSET QueueNames :
        \E selected \in SUBSET declared : InitLoopWith(declared, selected)

NextQueues ==
    \/ \E queue \in QueueNames : AddTaskQueue(queue)
    \/ \E queue \in QueueNames : CancelTaskQueue(queue)

SpecQueues == InitQueues /\ [][NextQueues]_vars

\* Consumer.shutdown() on any list of components
NextShutdown == \E n \in 0..MaxComponents : Shutdown(n)

SpecShutdown == InitAnyComponents /\ [][NextShutdown]_vars

\* ================================================================ claims
Terminal == {"ack", "reject", "put", "timer"}
Handled(d) == handler[d] # ""
TerminalCount(d) ==
    Cardinality({i \in 1..Len(outcome[d]) : outcome[d][i] \in Terminal})

\* C1 as stated: every delivery a handler took got exactly one terminal
\* outcome from it: an ack, a reject, a put on the ready queue or a timer entry.
C1_ExactlyOneTerminal ==
    \A d \in Deliveries : Handled(d) => TerminalCount(d) = 1

\* C1, amended: a handler never gives a delivery more than one terminal
\* outcome, and gives it none exactly when on_task finds the task revoked.
C1_AtMostOneNoneIffRevoked ==
    \A d \in Deliveries :
        Handled(d) =>
            /\ TerminalCount(d) <= 1
            /\ TerminalCount(d) = 0 <=> (handler[d] = "on_task" /\ task[d].revoked)

C1_Witness ==
    \E d, e \in Deliveries :
        /\ handler[d] = "on_task" /\ task[d].revoked /\ TerminalCount(d) = 0
        /\ handler[e] = "on_task" /\ ~task[e].revoked /\ Has(outcome[e], "timer")

\* C2: in one Namespace.shutdown, a component with delay_shutdown is shut down
\* only after every component without it (and not None) has been shut down.
C2_DelayedAfterAllOthers ==
    \A j \in 1..Len(shutdown_log) :
        components[shutdown_log[j]].delay_shutdown =>
            \A c \in 1..Len(components) :
                (components[c].truthy /\ ~components[c].delay_shutdown) =>
                    \E i \in 1..(j - 1) : shutdown_log[i] = c

C2_Witness ==
    /\ shutdown_calls = 1
    /\ \E j \in 1..Len(shutdown_log), c \in 1..Len(components) :
          /\ components[shutdown_log[j]].delay_shutdown
          /\ components[c].truthy /\ ~components[c].delay_shutdown
          /\ shutdown_log[j] < c

\* C3 as stated: once Consumer.shutdown() has been called the namespace state
\* is CLOSE (which is what makes start() leave its loop).
C3_ShutdownSetsClose == shutdown_calls > 0 => state = CLOSE

\* C4 as stated: while namespace.state is CLOSE, start() calls neither
\* ns.start nor restart.
C4_NoStartOrRestartWhileClose ==
    [][state = CLOSE =>
          (start_calls' = start_calls /\ restart_calls' = restart_calls)]_vars

\* C5 as stated: no error of connection_errors or channel_errors ever leaves
\* start().
C5_BrokerFaultNeverEscapes ==
    escaped \notin connection_errors \cup channel_errors

\* C6: an exception that reaches the except clause of start() and is in
\* neither connection_errors nor channel_errors leaves start() as it is, with
\* no restart() and no further ns.start; nothing runs after start() raised.
C6_OtherErrorPropagates ==
    /\ [][(pc = "except" /\ exc \notin connection_errors \cup channel_errors) =>
            /\ restart_calls' = restart_calls
            /\ start_calls' = start_calls
            /\ pc' \in {"except", "raised"}
            /\ pc' = "raised" => escaped' = exc]_vars
    /\ [][pc = "raised" =>
            /\ pc' = "raised"
            /\ escaped' = escaped
            /\ restart_calls' = restart_calls
            /\ start_calls' = start_calls]_vars

C6_Witness ==
    /\ pc = "raised"
    /\ escaped \in OtherErrors
    /\ start_calls = 1
    /\ restart_calls = 0

EtaScheduled == Cardinality({d \in Deliveries : Has(outcome[d], "timer")})
EtaFired == Cardinality({d \in Deliveries : fired[d] # <<>>})

\* C7: increment_eventually calls minus decrement_eventually calls equals
\* the ETA tasks put on the timer minus the ETA tasks the timer fired.
C7_QosBalance == qos_inc - qos_dec = EtaScheduled - EtaFired

C7_Witness == EtaScheduled = 2 /\ EtaFired = 1 /\ qos_inc = 2 /\ qos_dec = 1

\* C8: when a later failure and recovery completes with nothing else having
\* happened since an earlier recovery, the strategies, the queue set, the QoS
\* value and the ready queue are what they were after that earlier recovery.
C8_RestartIdempotent ==
    (snap_at # 0 /\ ~recovering /\ pc = "loop") => Obs = obs_snap

C8_Witness ==
    /\ snap_at = 1
    /\ recoveries = 2
    /\ pc = "loop"
    /\ ~recovering
    /\ ready_queue # <<>>
    /\ \E name \in TaskNames : strategies[name] # 0

C10_InitCallbackOnce == init_calls <= 1

\* the pass of Namespace.shutdown that shut the component down
Phase(c) == IF components[c].delay_shutdown THEN 2 ELSE 1

\* C11 as stated: within each pass of Namespace.shutdown, a component is shut
\* down before every component that precedes it in parent.components.
C11_ReverseDependencyOrder ==
    \A i, j \in 1..Len(shutdown_log) :
        (i < j /\ Phase(shutdown_log[i]) = Phase(shutdown_log[j])) =>
            shutdown_log[i] > shutdown_log[j]

\* on_task took the delivery as a task to execute at once
Immediate(d) == handler[d] = "on_task" /\ ~task[d].revoked /\ task[d].eta = NoEta

\* C12: of two tasks without eta and not revoked, the one on_task received
\* first is on the ready queue ahead of the other, whatever else was handled
\* or fired in between.
C12_ArrivalOrderKept ==
    \A a, b \in Deliveries :
        (a < b /\ Immediate(a) /\ Immediate(b)) =>
            \E i, j \in 1..Len(ready_queue) :
                i < j /\ ready_queue[i] = a /\ ready_queue[j] = b

C12_Witness ==
    \E a, c, b \in Deliveries :
        /\ a < c /\ c < b
        /\ Immediate(a) /\ Immediate(b)
        /\ Has(outcome[c], "timer") /\ fired[c] # <<>>
        /\ ready_queue = <<a, c, b>>

\* what on_task may do with a task it does not drop
Accepting == {"event", "reserved", "put", "timer", "qos_inc", "qos_dec"}

\* C13: the call of on_task that receives a revoked task, with or without an
\* eta, sends no task-received event, reserves, queues and schedules nothing,
\* and leaves the ready queue, the timer, the reserved tasks and the QoS as
\* they were.
C13_RevokedDropped ==
    [][\A d \in Deliveries :
          (handler[d] = "" /\ handler'[d] = "on_task" /\ task'[d].revoked) =>
              /\ Range(outcome'[d]) \cap Accepting = {}
              /\ UNCHANGED <<ready_queue, timer, reserved, qos_inc, qos_dec>>]_vars

C13_Witness ==
    \E d, e \in Deliveries :
        /\ handler[d] = "on_task" /\ task[d].revoked /\ task[d].eta # NoEta
        /\ handler[e] = "on_task" /\ task[e].revoked /\ task[e].eta = NoEta
        /\ outcome[d] = <<>> /\ outcome[e] = <<>>
        /\ reserved \cap {d, e} = {}
        /\ ready_queue # <<>>

\* the task of delivery d has an eta that to_timestamp cannot convert
Overflows(t) == ~t.revoked /\ t.eta # NoEta /\ to_timestamp(t.eta).overflow

\* C14: the call of on_task that receives a task, not revoked, whose eta
\* overflows acknowledges it exactly once and returns normally; it schedules,
\* queues and reserves nothing and does not call qos.increment_eventually.
C14_OverflowAcked ==
    [][\A d \in Deliveries :
          (handler[d] = "" /\ handler'[d] = "on_task" /\ Overflows(task'[d])) =>
              /\ Count(outcome'[d], "ack") = 1
              /\ Range(outcome'[d]) \cap {"timer", "put", "reserved", "qos_inc"} = {}
              /\ UNCHANGED <<ready_queue, timer, reserved, qos_inc>>
              /\ pc' = pc /\ exc' = NoExc]_vars

C14_Witness ==
    \E d \in Deliveries :
        /\ handler[d] = "on_task" /\ Overflows(task[d])
        /\ outcome[d] = <<"event", "ack">>
        /\ pc = "loop"
        /\ timer # {}
        /\ ready_queue # <<>>

\* C15: the call of on_decode_error acknowledges the message exactly once,
\* never rejects it, and leaves the ready queue, the timer and the QoS as
\* they were.
C15_DecodeErrorAcked ==
    [][\A d \in Deliveries :
          (handler[d] = "" /\ handler'[d] = "on_decode_error") =>
              /\ Count(outcome'[d], "ack") = 1
              /\ ~Has(outcome'[d], "reject")
              /\ UNCHANGED <<ready_queue, timer, reserved, qos_inc, qos_dec>>
              /\ pc' = pc]_vars

C15_Witness ==
    \E d \in Deliveries :
        /\ handler[d] = "on_decode_error"
        /\ outcome[d] = <<"ack">>
        /\ d > 1
        /\ timer # {}
        /\ ready_queue # <<>>

RejectHandlers ==
    {"handle_unknown_message", "handle_unknown_task", "handle_invalid_task"}

\* C16 as stated: a call of handle_unknown_message, handle_unknown_task or
\* handle_invalid_task sends one reject, and no connection error and no
\* channel error of that reject leaves the handler.
C16_RejectErrorsSwallowed ==
    [][\A d \in Deliveries :
          (handler[d] = "" /\ handler'[d] \in RejectHandlers) =>
              /\ Count(outcome'[d], "reject") = 1
              /\ exc' \notin connection_errors \cup channel_errors]_vars

\* start() is left by the shutdown signal
Unwinds == pc' = "raised" /\ escaped' = SystemExit

Scheduled(d) ==
    /\ handler[d] = "on_task"
    /\ ~task[d].revoked
    /\ task[d].eta # NoEta
    /\ ~to_timestamp(task[d].eta).overflow

\* the calls on_task made for the delivery, the task-received event aside
Calls(d) == SelectSeq(outcome[d], LAMBDA c : c # "event")

TimerEntries(d) == {entry \in timer : entry.task = d}

\* C19: for a task, not revoked, whose eta converts, on_task calls
\* qos.increment_eventually and then schedules one timer entry of priority 6,
\* and neither reserves nor queues the task; the task is on the ready queue
\* once, and reserved, exactly when its timer entry has fired, and
\* apply_eta_task then did task_reserved, the put and
\* qos.decrement_eventually in that order.
C19_EtaGoesThroughTimer ==
    \A d \in Deliveries :
        Scheduled(d) =>
            /\ Calls(d) = <<"qos_inc", "timer">>
            /\ fired[d] \in {<<>>, <<"reserved", "put", "qos_dec">>}
            /\ Count(ready_queue, d) = IF fired[d] = <<>> THEN 0 ELSE 1
            /\ d \in reserved <=> fired[d] # <<>>
            /\ Cardinality(TimerEntries(d)) = IF fired[d] = <<>> THEN 1 ELSE 0
            /\ \A entry \in TimerEntries(d) : entry.priority = 6

C19_Witness ==
    \E d, e \in Deliveries :
        /\ Scheduled(d) /\ fired[d] # <<>> /\ Count(ready_queue, d) = 1
        /\ Scheduled(e) /\ fired[e] = <<>> /\ TimerEntries(e) # {}
        /\ Has(outcome[e], "event")

\* the queue set and the subscriptions a call of add_task_queue left
After(r) ==
    [queues |-> r.queues, consume_from |-> r.consume_from,
     consuming |-> r.consuming]

\* C17: whatever the queue set and the subscriptions are, a second
\* add_task_queue(queue) right after a first one leaves them as the first one
\* left them, and calls neither add_queue nor consume().
C17_AddIdempotent ==
    \A queue \in QueueNames :
        LET once == add_task_queue(AppQueues, queue)
            twice == add_task_queue(After(once), queue)
        IN  /\ After(twice) = After(once)
            /\ ~Has(twice.calls, "add_queue")
            /\ ~Has(twice.calls, "consume")

C17_Witness ==
    /\ consume_calls = 1
    /\ \E queue \in consuming \ consume_from :
          add_task_queue(AppQueues, queue).calls = <<>>
    /\ \E queue \in QueueNames \ queues :
          add_task_queue(AppQueues, queue).calls =
              <<"select_add", "add_queue", "consume">>
    /\ \E queue \in queues \ consuming :
          add_task_queue(AppQueues, queue).calls = <<"add_queue", "consume">>

\* C20 as stated: whatever add_task_queue and cancel_task_queue calls were
\* made, the task consumer consumes from exactly the queues selected in the
\* app's queue set.
C20_ConsumingIffSelected == consuming = consume_from
====
